---------------------------- MODULE Spec2Model ----------------------------
(***************************************************************************)
(* chord-explorer: the BDF font loader, the glyph rasterizer, the text     *)
(* shaper, the canvas region allocator, fill, hit testing, the tab strip   *)
(* and text layout, modelled from src/src/font.rs, src/src/main.rs,        *)
(* src/src/widget.rs and src/src/explorer.rs.                              *)
(*                                                                         *)
(* A line of the font stream is a sequence of one-character strings, a     *)
(* text is a sequence of codepoints, a pixel buffer is a function from     *)
(* 0 .. width*height-1 to colours (4-tuples of bytes).                     *)
(***************************************************************************)
EXTENDS Integers, Sequences, FiniteSets, TLC

VARIABLES
    stream,     \* parse_bdf: the lines of the BufRead, in order
    pos,        \* parse_bdf: index of the line the next lines.next() yields
    phase,      \* parse_bdf: which loop of the function is running
    rec,        \* parse_bdf: the locals char, width, height, xo, yo, data
    chars,      \* Font.chars being built (codepoint -> CharData)
    result,     \* "running", then "Some", "None" or "panic"
    open,       \* an ENCODING line has been read and its record is not stored yet
    blocks,     \* the records and stray lines the stream was assembled from
    pix,        \* PixBuf: the destination pixel buffer
    call,       \* the drawing call under way or last made: its arguments and what it returned
    rect,       \* Canvas.rect: the current rectangle
    visuals,    \* Canvas.visuals: the cut direction, the colour and the text scale
    frames,     \* the with_rect calls under way, innermost last: what each restores
    events,     \* Canvas.events: the cursor and the buttons held in this frame
    selected    \* Main.tab: the selection the tab strip reads and writes

parseVars == <<stream, pos, phase, rec, chars, result, open, blocks>>
canvasVars == <<rect, visuals, frames>>
inputVars == <<events, selected>>

(***************************************************************************)
(* Bounds of the model.                                                    *)
(***************************************************************************)
MaxBlocks == 3
BufWidth == 5
BufHeight == 4
MaxScale == 3
MaxCoord == 3
MaxText == 3
MaxCalls == 2
MaxDepth == 2
MaxFrames == 2

(***************************************************************************)
(* Text primitives of the standard library, as parse_bdf uses them.        *)
(***************************************************************************)
IsWhitespace(c) == c \in {" ", "\t"}

\* str::starts_with
StartsWith(line, kw) ==
    /\ Len(line) >= Len(kw)
    /\ SubSeq(line, 1, Len(kw)) = kw

RECURSIVE SplitFrom(_, _, _, _)
SplitFrom(line, i, cur, acc) ==
    IF i > Len(line)
    THEN IF cur = <<>> THEN acc ELSE Append(acc, cur)
    ELSE IF IsWhitespace(line[i])
         THEN SplitFrom(line, i + 1, <<>>, IF cur = <<>> THEN acc ELSE Append(acc, cur))
         ELSE SplitFrom(line, i + 1, Append(cur, line[i]), acc)

\* str::split_whitespace: the maximal runs of non-whitespace characters
SplitWhitespace(line) == SplitFrom(line, 1, <<>>, <<>>)

\* char::to_digit(36): the value of a digit or letter, -1 for any other character
DigitOf(c) ==
    CASE c = "0" -> 0 [] c = "1" -> 1 [] c = "2" -> 2 [] c = "3" -> 3
      [] c = "4" -> 4 [] c = "5" -> 5 [] c = "6" -> 6 [] c = "7" -> 7
      [] c = "8" -> 8 [] c = "9" -> 9
      [] c \in {"a", "A"} -> 10 [] c \in {"b", "B"} -> 11
      [] c \in {"c", "C"} -> 12 [] c \in {"d", "D"} -> 13
      [] c \in {"e", "E"} -> 14 [] c \in {"f", "F"} -> 15
      [] c \in {"x", "X"} -> 33 [] c \in {"z", "Z"} -> 35
      [] OTHER -> -1

\* char::to_digit(radix)
ToDigit(c, radix) ==
    LET d == DigitOf(c) IN IF d >= 0 /\ d < radix THEN d ELSE -1

I32Max == 2147483647
I32Min == -2147483647 - 1
\* char::MAX as u32, and the surrogate range char::from_u32 rejects
CharMax == 1114111
SurrogateLo == 55296
SurrogateHi == 57343

Ok(v) == [ok |-> TRUE, val |-> v]
Err == [ok |-> FALSE, val |-> 0]

\* The digits of a positive number accumulated as from_str_radix does, with its
\* overflow check (checked_mul, checked_add) against `max`.
RECURSIVE AccPos(_, _, _, _, _)
AccPos(s, i, radix, acc, max) ==
    IF i > Len(s) THEN Ok(acc)
    ELSE LET d == ToDigit(s[i], radix) IN
         IF d < 0 THEN Err
         ELSE IF acc > (max - d) \div radix THEN Err
         ELSE AccPos(s, i + 1, radix, acc * radix + d, max)

\* The digits of a negative number (checked_mul, checked_sub) against `min`.
RECURSIVE AccNeg(_, _, _, _, _)
AccNeg(s, i, radix, acc, min) ==
    IF i > Len(s) THEN Ok(acc)
    ELSE LET d == ToDigit(s[i], radix) IN
         IF d < 0 THEN Err
         ELSE IF acc < (min + d + radix - 1) \div radix THEN Err
         ELSE AccNeg(s, i + 1, radix, acc * radix - d, min)

\* i32::from_str_radix(s, radix): an optional sign, then at least one digit
I32FromStrRadix(s, radix) ==
    IF s = <<>> THEN Err
    ELSE IF s \in {<<"+">>, <<"-">>} THEN Err
    ELSE IF s[1] = "-" THEN AccNeg(s, 2, radix, 0, I32Min)
    ELSE IF s[1] = "+" THEN AccPos(s, 2, radix, 0, I32Max)
    ELSE AccPos(s, 1, radix, 0, I32Max)

\* u8::from_str_radix(s, radix): an optional "+", no "-" (an unsigned type)
U8FromStrRadix(s, radix) ==
    IF s = <<>> THEN Err
    ELSE IF s \in {<<"+">>, <<"-">>} THEN Err
    ELSE IF s[1] = "+" THEN AccPos(s, 2, radix, 0, 255)
    ELSE AccPos(s, 1, radix, 0, 255)

\* char::from_u32(u32::from_str_radix(s, 10).ok()?)? of line 97: the codepoint,
\* or the failure that returns None.  A u32 above char::MAX is refused by
\* char::from_u32 and one above u32::MAX by from_str_radix, both with the same
\* outcome, so the digits are accumulated against char::MAX.
CharFromDecimal(s) ==
    LET n == IF s = <<>> THEN Err
             ELSE IF s \in {<<"+">>, <<"-">>} THEN Err
             ELSE IF s[1] = "+" THEN AccPos(s, 2, 10, 0, CharMax)
             ELSE AccPos(s, 1, 10, 0, CharMax)
    IN  IF ~n.ok THEN Err
        ELSE IF n.val >= SurrogateLo /\ n.val <= SurrogateHi THEN Err
        ELSE n

\* Chunks::next until None: the successive n-character pieces of s; a shorter
\* rest is dropped.
RECURSIVE Chunks(_, _)
Chunks(s, n) ==
    IF Len(s) >= n
    THEN <<SubSeq(s, 1, n)>> \o Chunks(SubSeq(s, n + 1, Len(s)), n)
    ELSE <<>>

\* lines 123-126: the bytes of one bitmap row, or the failure of byte.ok()?
RECURSIVE DecodeFrom(_, _, _)
DecodeFrom(cs, i, acc) ==
    IF i > Len(cs) THEN Ok(acc)
    ELSE LET b == U8FromStrRadix(cs[i], 16) IN
         IF ~b.ok THEN Err ELSE DecodeFrom(cs, i + 1, Append(acc, b.val))

DecodeRow(line) == DecodeFrom(Chunks(line, 2), 1, <<>>)

(***************************************************************************)
(* PixBuf (main.rs): buf is the flat row-major pixel array, fault records   *)
(* an index outside it (the panic of a slice index out of range).           *)
(***************************************************************************)
Transparent == <<0, 0, 0, 0>>
White == <<255, 255, 255, 255>>
Red == <<255, 0, 0, 255>>

\* Canvas::clear over a buffer of w*h pixels
ClearBuf(w, h) ==
    [buf |-> [i \in 0 .. w * h - 1 |-> Transparent], width |-> w, height |-> h,
     fault |-> FALSE]

\* self.buf[i] = color
BufStore(pb, i, color) ==
    IF i \in DOMAIN pb.buf
    THEN [pb EXCEPT !.buf[i] = color]
    ELSE [pb EXCEPT !.fault = TRUE]

\* a bounds test that lets x = width through
InBufOffByOne(pb, x, y) == x >= 0 /\ y >= 0 /\ x <= pb.width /\ y < pb.height

\* The bounds test of set_pixel, line 53
InBuf(pb, x, y) == x >= 0 /\ y >= 0 /\ x < pb.width /\ y < pb.height

\* PixBuf::set_pixel
SetPixel(pb, x, y, color) ==
    IF InBuf(pb, x, y) THEN BufStore(pb, x + y * pb.width, color) ELSE pb

\* The k-th turn of the two loops of set_scaled_pixel (rows outside, columns inside)
RECURSIVE ScaledFrom(_, _, _, _, _, _)
ScaledFrom(pb, x, y, scale, color, k) ==
    IF k >= scale * scale \/ pb.fault THEN pb
    ELSE ScaledFrom(SetPixel(pb, x * scale + (k % scale), y * scale + (k \div scale), color),
                    x, y, scale, color, k + 1)

\* PixBuf::set_scaled_pixel
SetScaledPixel(pb, x, y, scale, color) == ScaledFrom(pb, x, y, scale, color, 0)

(***************************************************************************)
(* CharData::draw (font.rs 45-70).                                         *)
(***************************************************************************)
\* i32 division: the quotient truncated towards zero
TruncDiv(a, b) == IF a >= 0 THEN a \div b ELSE -((-a) \div b)

\* (self.width as usize + 7) >> 3, for the widths of the model (all >= 0)
DataWidth(width) == (width + 7) \div 8

\* byte >> j & 1 == 1: the test of the j-th turn of the inner loop
BitSet(byte, j) == (byte \div (2 ^ j)) % 2 = 1

\* the columns taken in increasing order: the low bit leftmost
BitColumnLowFirst(x8, j) == x8 * 8 + j

\* The column the j-th turn of the inner loop paints: the range is reversed
BitColumn(x8, j) == x8 * 8 + 7 - j

\* The logical pixel of column x of row y (the arguments of set_scaled_pixel)
GlyphPixel(g, p, scale, x, y) ==
    <<TruncDiv(p[1], scale) + x + g.xo, TruncDiv(p[2], scale) + y - g.height - g.yo>>

\* One row: turn n of the byte loop and the bit loop inside it
RECURSIVE DrawRowFrom(_, _, _, _, _, _, _, _)
DrawRowFrom(g, d, p, color, scale, y, line, n) ==
    IF n >= Len(line) * 8 \/ d.pix.fault THEN d
    ELSE LET x8 == n \div 8
             j == n % 8
             at == GlyphPixel(g, p, scale, BitColumn(x8, j), y)
         IN  IF BitSet(line[x8 + 1], j)
             THEN DrawRowFrom(g, [pix |-> SetScaledPixel(d.pix, at[1], at[2], scale, color),
                                  painted |-> d.painted \cup {at},
                                  panic |-> FALSE],
                              p, color, scale, y, line, n + 1)
             ELSE DrawRowFrom(g, d, p, color, scale, y, line, n + 1)

\* The rows from y on; &data[0..data_width] panics when fewer bytes are left
RECURSIVE DrawRowsFrom(_, _, _, _, _, _)
DrawRowsFrom(g, d, p, color, scale, y) ==
    LET dw == DataWidth(g.width) IN
    IF y >= g.height \/ d.pix.fault THEN d
    ELSE IF (y + 1) * dw > Len(g.data) THEN [d EXCEPT !.panic = TRUE]
    ELSE DrawRowsFrom(g,
                      DrawRowFrom(g, d, p, color, scale, y,
                                  SubSeq(g.data, y * dw + 1, (y + 1) * dw), 0),
                      p, color, scale, y + 1)

\* CharData::draw: the buffer after it, the logical pixels it painted, and
\* whether it panicked
CharDataDraw(g, pb, p, color, scale) ==
    DrawRowsFrom(g, [pix |-> pb, painted |-> {}, panic |-> FALSE], p, color, scale, 0)

(***************************************************************************)
(* Font::len and Font::draw (font.rs 143-192).  A text is its sequence of  *)
(* codepoints (s.chars()).                                                 *)
(***************************************************************************)
\* a shaper that never looks the pair up
IsLigatureNever(font, s, i) == FALSE

\* chars.peek().copied().and_then(|snd| self.ligatures.get(&(n, snd))).is_some()
IsLigature(font, s, i) ==
    i + 1 <= Len(s) /\ <<s[i], s[i + 1]>> \in DOMAIN font.ligatures

RECURSIVE LenFrom(_, _, _, _)
LenFrom(font, s, i, len) ==
    IF i > Len(s) THEN len
    ELSE LenFrom(font, s, IF IsLigature(font, s, i) THEN i + 2 ELSE i + 1, len + 1)

\* Font::len
FontLen(font, s) == LenFrom(font, s, 1, 0)

\* The glyph of the cell starting at s[i]: the ligature, or else the character's
\* own glyph, or none
CellGlyph(font, s, i) ==
    IF IsLigature(font, s, i) THEN {font.ligatures[<<s[i], s[i + 1]>>]}
    ELSE IF s[i] \in DOMAIN font.chars THEN {font.chars[s[i]]}
    ELSE {}

\* an advance that forgets the scale
AdvanceUnscaled(font, p, scale) == <<p[1] + font.width, p[2]>>

\* pos.0 += self.width * scale
Advance(font, p, scale) == <<p[1] + font.width * scale, p[2]>>

RECURSIVE DrawFrom(_, _, _, _, _, _)
DrawFrom(font, d, s, color, scale, i) ==
    IF i > Len(s) \/ d.panic \/ d.pix.fault THEN d
    ELSE LET gs == CellGlyph(font, s, i)
             g == CHOOSE x \in gs : TRUE
             r == IF gs = {} THEN [pix |-> d.pix, painted |-> {}, panic |-> FALSE]
                  ELSE CharDataDraw(g, d.pix, d.p, color, scale)
             cell == [at |-> d.p, first |-> i, glyph |-> gs, painted |-> r.painted]
         IN  IF r.panic
             THEN [d EXCEPT !.pix = r.pix, !.panic = TRUE]
             ELSE DrawFrom(font,
                           [pix |-> r.pix,
                            p |-> Advance(font, d.p, scale),
                            len |-> d.len + 1,
                            cells |-> Append(d.cells, cell),
                            panic |-> FALSE],
                           s, color, scale,
                           IF IsLigature(font, s, i) THEN i + 2 ELSE i + 1)

\* Font::draw: the buffer after it, the returned count, the cells it walked
\* (where each was drawn, from which codepoint, with which glyph), and whether
\* a glyph's draw panicked
FontDraw(font, pb, s, p, color, scale) ==
    DrawFrom(font, [pix |-> pb, p |-> p, len |-> 0, cells |-> <<>>, panic |-> FALSE],
             s, color, scale, 1)

(***************************************************************************)
(* The font streams of the model: a stream is the concatenation of at most *)
(* MaxBlocks blocks, each a well-formed record (one of them empty, with a  *)
(* DWIDTH line inside), a stray line, a truncated record or a record with  *)
(* a malformed field.                                                      *)
(***************************************************************************)
KwEncoding == <<"E", "N", "C", "O", "D", "I", "N", "G">>
KwBbx == <<"B", "B", "X">>
KwBitmap == <<"B", "I", "T", "M", "A", "P">>
Sp == <<" ">>

LnEnc65 == KwEncoding \o Sp \o <<"6", "5">>
LnEnc66 == KwEncoding \o Sp \o <<"6", "6">>
LnEnc67 == KwEncoding \o Sp \o <<"6", "7">>
LnEncNone == KwEncoding
LnEncWord == KwEncoding \o Sp \o <<"x", "1">>
LnEncNeg == KwEncoding \o Sp \o <<"-", "5">>
LnEncSurr == KwEncoding \o Sp \o <<"5", "5", "2", "9", "6">>
LnBbx8x1 == KwBbx \o Sp \o <<"8">> \o Sp \o <<"1">> \o Sp \o <<"0">> \o Sp \o <<"0">>
LnBbx8x2 == KwBbx \o Sp \o <<"8">> \o Sp \o <<"2">> \o Sp \o <<"0">> \o Sp \o <<"0">>
LnBbx9x2 == KwBbx \o Sp \o <<"9">> \o Sp \o <<"2">> \o Sp \o <<"1">> \o Sp \o <<"-", "1">>
LnBbx0x0 == KwBbx \o Sp \o <<"0">> \o Sp \o <<"0">> \o Sp \o <<"0">> \o Sp \o <<"0">>
LnDwidth == <<"D", "W", "I", "D", "T", "H">> \o Sp \o <<"6">> \o Sp \o <<"0">>
LnBbxShort == KwBbx \o Sp \o <<"8">> \o Sp \o <<"1">> \o Sp \o <<"0">>
LnBbxWord == KwBbx \o Sp \o <<"8">> \o Sp \o <<"x">> \o Sp \o <<"0">> \o Sp \o <<"0">>
LnBitmap == KwBitmap
LnEndChar == <<"E", "N", "D", "C", "H", "A", "R">>
LnFF == <<"F", "F">>
Ln8080 == <<"8", "0", "8", "0">>
Ln01c0 == <<"0", "1", "c", "0">>
LnZZ == <<"Z", "Z">>
LnF == <<"F">>

\* The CharData a well-formed record describes, written down independently of
\* its text.
Glyph(w, h, xo, yo, data) ==
    [width |-> w, height |-> h, xo |-> xo, yo |-> yo, data |-> data]

NoGlyph == Glyph(0, 0, 0, 0, <<>>)

WellFormed == {"A1", "A2", "B1"}
Stray == {"stray"}
Truncated == {"T1", "T2", "T3"}
Malformed == {"M1", "M2", "M3", "M4", "M5", "M6", "M7"}
OddRow == {"S1"}
BlockNames == WellFormed \cup Stray \cup Truncated \cup Malformed \cup OddRow

BlockLines(b) ==
    CASE b = "A1" -> <<LnEnc65, LnBbx8x1, LnBitmap, LnFF>>
      [] b = "A2" -> <<LnEnc65, LnBbx9x2, LnBitmap, Ln8080, Ln01c0>>
      [] b = "B1" -> <<LnEnc66, LnDwidth, LnBbx0x0, LnBitmap>>
      [] b = "stray" -> <<LnEndChar>>
      [] b = "T1" -> <<LnEnc65>>
      [] b = "T2" -> <<LnEnc65, LnBbx8x1>>
      [] b = "T3" -> <<LnEnc67, LnBbx8x2, LnBitmap, LnFF>>
      [] b = "M1" -> <<LnEncNone>>
      [] b = "M2" -> <<LnEncWord>>
      [] b = "M3" -> <<LnEncNeg>>
      [] b = "M4" -> <<LnEncSurr>>
      [] b = "M5" -> <<LnEnc65, LnBbxShort>>
      [] b = "M6" -> <<LnEnc65, LnBbxWord>>
      [] b = "M7" -> <<LnEnc65, LnBbx8x1, LnBitmap, LnZZ>>
      [] b = "S1" -> <<LnEnc67, LnBbx8x1, LnBitmap, LnF>>

BlockChar(b) == CASE b \in {"A1", "A2"} -> 65 [] b = "B1" -> 66

BlockGlyph(b) ==
    CASE b = "A1" -> Glyph(8, 1, 0, 0, <<255>>)
      [] b = "A2" -> Glyph(9, 2, 1, -1, <<128, 128, 1, 192>>)
      [] b = "B1" -> Glyph(0, 0, 0, 0, <<>>)

RECURSIVE Flatten(_)
Flatten(bs) ==
    IF bs = <<>> THEN <<>> ELSE BlockLines(Head(bs)) \o Flatten(Tail(bs))

BlockSeqs == UNION {[1 .. n -> BlockNames] : n \in 0 .. MaxBlocks}

(***************************************************************************)
(* Font::parse_bdf, one action per loop of the function; each action is    *)
(* one lines.next() and everything the function does with that line.       *)
(***************************************************************************)
\* an insert that keeps the value of a key already present
MapInsertKeepsFirst(m, k, v) ==
    [c \in (DOMAIN m) \cup {k} |-> IF c \in DOMAIN m THEN m[c] ELSE v]

\* HashMap::insert
MapInsert(m, k, v) ==
    [c \in (DOMAIN m) \cup {k} |-> IF c = k THEN v ELSE m[c]]

NoRec == [char |-> 0, width |-> 0, height |-> 0, xo |-> 0, yo |-> 0,
          data |-> <<>>, read |-> 0]

RecGlyph(r) == Glyph(r.width, r.height, r.xo, r.yo, r.data)

\* lines 130-139: font.chars.insert(char, CharData {..}) and the next turn of the loop
StoreRecord(r) ==
    /\ chars' = MapInsert(chars, r.char, RecGlyph(r))
    /\ rec' = NoRec
    /\ phase' = "char"
    /\ open' = FALSE
    /\ result' = result

\* a return out of parse_bdf (Some(font), None) or the panic of unwrap() on line 96
Return(outcome) ==
    /\ result' = outcome
    /\ UNCHANGED <<phase, rec, chars>>

\* lines 86-97: scan for the next ENCODING line and read its codepoint
NextChar ==
    /\ result = "running"
    /\ phase = "char"
    /\ UNCHANGED <<stream, blocks, pix, call, canvasVars, inputVars>>
    /\ IF pos > Len(stream)
       THEN /\ Return("Some")
            /\ UNCHANGED <<pos, open>>
       ELSE LET next == stream[pos]
                toks == SplitWhitespace(next)
            IN  /\ pos' = pos + 1
                /\ IF ~StartsWith(next, KwEncoding)
                   THEN UNCHANGED <<phase, rec, chars, result, open>>
                   ELSE /\ open' = TRUE
                        /\ IF Len(toks) < 2
                           THEN Return("panic")
                           ELSE LET c == CharFromDecimal(toks[2]) IN
                                IF ~c.ok
                                THEN Return("None")
                                ELSE /\ rec' = [NoRec EXCEPT !.char = c.val]
                                     /\ phase' = "bbx"
                                     /\ UNCHANGED <<chars, result>>

\* lines 106-110: the four fields of a BBX line, each next()? and .ok()?
BbxFields(toks) ==
    IF Len(toks) < 5 THEN Err
    ELSE IF \E i \in 2 .. 5 : ~I32FromStrRadix(toks[i], 10).ok THEN Err
    ELSE Ok([i \in 1 .. 4 |-> I32FromStrRadix(toks[i + 1], 10).val])

\* lines 100-110: scan for the BBX line and read the bounding box
NextBbx ==
    /\ result = "running"
    /\ phase = "bbx"
    /\ UNCHANGED <<stream, blocks, open, pix, call, canvasVars, inputVars>>
    /\ IF pos > Len(stream)
       THEN /\ Return("None")
            /\ UNCHANGED pos
       ELSE LET next == stream[pos]
                b == BbxFields(SplitWhitespace(next))
            IN  /\ pos' = pos + 1
                /\ IF ~StartsWith(next, KwBbx)
                   THEN UNCHANGED <<phase, rec, chars, result>>
                   ELSE IF ~b.ok
                        THEN Return("None")
                        ELSE /\ rec' = [rec EXCEPT !.width = b.val[1], !.height = b.val[2],
                                                   !.xo = b.val[3], !.yo = b.val[4]]
                             /\ phase' = "bitmap"
                             /\ UNCHANGED <<chars, result>>

\* lines 113-121: scan for the BITMAP line; with no row to read (0..height is
\* empty) the record is stored at once
NextBitmap ==
    /\ result = "running"
    /\ phase = "bitmap"
    /\ UNCHANGED <<stream, blocks, pix, call, canvasVars, inputVars>>
    /\ IF pos > Len(stream)
       THEN /\ Return("None")
            /\ UNCHANGED <<pos, open>>
       ELSE LET next == stream[pos] IN
            /\ pos' = pos + 1
            /\ IF ~StartsWith(next, KwBitmap)
               THEN UNCHANGED <<phase, rec, chars, result, open>>
               ELSE IF rec.height <= 0
                    THEN StoreRecord(rec)
                    ELSE /\ phase' = "rows"
                         /\ UNCHANGED <<rec, chars, result, open>>

\* lines 121-139: one bitmap row; after the last one the record is stored
NextRow ==
    /\ result = "running"
    /\ phase = "rows"
    /\ UNCHANGED <<stream, blocks, pix, call, canvasVars, inputVars>>
    /\ IF pos > Len(stream)
       THEN /\ Return("None")
            /\ UNCHANGED <<pos, open>>
       ELSE LET bytes == DecodeRow(stream[pos])
                r == [rec EXCEPT !.data = rec.data \o bytes.val, !.read = rec.read + 1]
            IN  /\ pos' = pos + 1
                /\ IF ~bytes.ok
                   THEN /\ Return("None")
                        /\ UNCHANGED open
                   ELSE IF r.read = r.height
                        THEN StoreRecord(r)
                        ELSE /\ rec' = r
                             /\ UNCHANGED <<phase, chars, result, open>>

ParseInit ==
    /\ blocks \in BlockSeqs
    /\ stream = Flatten(blocks)
    /\ pos = 1
    /\ phase = "char"
    /\ rec = NoRec
    /\ chars = <<>>
    /\ result = "running"
    /\ open = FALSE

\* No font is being parsed (the specifications of the drawing operations)
ParseIdle ==
    /\ blocks = <<>>
    /\ stream = <<>>
    /\ pos = 1
    /\ phase = "char"
    /\ rec = NoRec
    /\ chars = <<>>
    /\ result = "idle"
    /\ open = FALSE

NoCall == [op |-> "none"]

\* Rect
Rect(x, y, w, h) == [x |-> x, y |-> y, width |-> w, height |-> h]

\* The Canvas main builds for a frame (main.rs 184-208): the whole surface,
\* text size 2, Vertical, white
FrameRect == Rect(0, 0, BufWidth, BufHeight)
TextSize == 2
FrameVisuals == [text_size |-> TextSize, dir |-> "Vertical", color |-> White]

\* The canvas of a frame before its root widget draws
CanvasInit ==
    /\ rect = FrameRect
    /\ visuals = FrameVisuals
    /\ frames = <<>>

\* Events (widget.rs 30-35) and the cursor's Option: no cursor is <<>>, a
\* cursor at (x, y) is <<x, y>>
NoCursor == <<>>
Events(left, middle, right, cursor) ==
    [mouse_left |-> left, mouse_middle |-> middle, mouse_right |-> right,
     cursor |-> cursor]
NoEvents == Events(FALSE, FALSE, FALSE, NoCursor)

\* MainTabs (explorer.rs 6-15): the tabs in iteration order; Main::default
\* selects the first
MainTabs == <<"Explore", "Tuning">>

\* No input and the default selection
InputIdle ==
    /\ events = NoEvents
    /\ selected = MainTabs[1]

(***************************************************************************)
(* Startup and first frame: main parses the font (main.rs 91) with a cell  *)
(* of 6 x 13 and a frame draws a text with it (Text::draw, widget.rs       *)
(* 224-233, calls Font::draw).                                             *)
(***************************************************************************)
CellWidth == 6
CellHeight == 13

RenderTexts == {<<65>>, <<67>>, <<65, 66>>, <<63, 65>>}
RenderOrigins == {<<0, 2>>, <<-3, 1>>, <<4, 40>>}

\* The Font parse_bdf returned
ParsedFont ==
    [width |-> CellWidth, height |-> CellHeight, chars |-> chars, ligatures |-> <<>>]

\* A Font::draw call about to be made on the text s, with Font::len of the
\* same text beside it
TextCall(font, s, p, color, scale, before) ==
    [op |-> "Font::draw", font |-> font, text |-> s, at |-> p, color |-> color,
     scale |-> scale, before |-> before, drawn |-> FALSE, len |-> 0, cells |-> <<>>,
     panic |-> FALSE, measured |-> FALSE, count |-> 0]

\* The call after Font::draw returned d
Drawn(c, d) ==
    [c EXCEPT !.drawn = TRUE, !.len = d.len, !.cells = d.cells,
              !.panic = d.panic \/ d.pix.fault]

Render ==
    /\ result = "Some"
    /\ call = NoCall
    /\ \E s \in RenderTexts, p \in RenderOrigins, scale \in 1 .. 2 :
          LET d == FontDraw(ParsedFont, pix, s, p, White, scale) IN
          /\ pix' = d.pix
          /\ call' = Drawn(TextCall(ParsedFont, s, p, White, scale, pix.buf), d)
    /\ UNCHANGED <<parseVars, canvasVars, inputVars>>

Init ==
    /\ ParseInit
    /\ CanvasInit
    /\ InputIdle
    /\ pix = ClearBuf(BufWidth, BufHeight)
    /\ call = NoCall

Next == NextChar \/ NextBbx \/ NextBitmap \/ NextRow \/ Render

vars == <<stream, pos, phase, rec, chars, result, open, blocks, pix, call,
          rect, visuals, frames, events, selected>>

Spec == Init /\ [][Next]_vars

(***************************************************************************)
(* Claims about Font::parse_bdf and the first frame, checked under Spec.   *)
(***************************************************************************)
Ended == result \in {"Some", "None", "panic"}

\* The first block that is neither a well-formed record nor a stray line is in S
FirstDefectIn(S) ==
    \E i \in 1 .. Len(blocks) :
        /\ blocks[i] \in S
        /\ \A j \in 1 .. i - 1 : blocks[j] \in WellFormed \cup Stray

\* C1: whenever the stream ends after an ENCODING line has been read and before
\* that record is complete (no BBX line, no BITMAP line, or fewer than h rows),
\* parse_bdf returns None, however many complete records came before.
C1_TruncatedRecordIsNone ==
    (Ended /\ open /\ pos > Len(stream)) => result = "None"

\* C2: a malformed field of a record (a missing, non-decimal, negative or invalid
\* codepoint; a BBX line with fewer than four fields or a non-integer field; a
\* bitmap row with a non-hexadecimal byte pair) makes parse_bdf return None: it
\* neither crashes nor returns a font.
C2_MalformedFieldIsNone ==
    (Ended /\ FirstDefectIn(Malformed)) => result = "None"

AllWellFormed == \A i \in 1 .. Len(blocks) : blocks[i] \in WellFormed \cup Stray

\* The last record of the stream for codepoint c
LastRecordOf(c) ==
    LET is == {i \in 1 .. Len(blocks) : blocks[i] \in WellFormed /\ BlockChar(blocks[i]) = c}
    IN  blocks[CHOOSE i \in is : \A j \in is : j <= i]

\* C3: on a stream of well-formed records with stray lines between them
\* parse_bdf never fails, returns Some when the stream ends while it scans for
\* the next ENCODING line, and the font then holds exactly one glyph per
\* codepoint of the stream, that of the codepoint's last record.
C3_WellFormedStreamParses ==
    AllWellFormed =>
        /\ result \in {"running", "Some"}
        /\ (result = "running" /\ pos > Len(stream)) => phase = "char"
        /\ result = "Some" =>
              /\ pos > Len(stream)
              /\ DOMAIN chars =
                    {BlockChar(blocks[i]) : i \in {j \in 1 .. Len(blocks) : blocks[j] \in WellFormed}}
              /\ \A c \in DOMAIN chars : chars[c] = BlockGlyph(LastRecordOf(c))

\* C3's case: a codepoint defined twice with a stray line between, parsed to the end
C3_Witness ==
    /\ result = "Some"
    /\ blocks = <<"A1", "stray", "A2">>

\* C4: every glyph of a font parse_bdf returned has h rows of ceil(w/8) bytes:
\* its data has h * ceil(w/8) bytes.
C4_StoredBitmapShape ==
    result = "Some" =>
        \A c \in DOMAIN chars :
            Len(chars[c].data) = chars[c].height * ((chars[c].width + 7) \div 8)

\* C5: drawing a text with a font parse_bdf returned never faults, whatever the
\* text, the origin and the scale.
C5_RenderNeverFaults ==
    (call.op = "Font::draw" /\ call.drawn) => ~call.panic

(***************************************************************************)
(* PixBuf::set_scaled_pixel on its own: one call on a buffer of            *)
(* BufWidth * BufHeight pixels, cleared or holding a pattern.              *)
(***************************************************************************)
Coords == -2 .. MaxCoord
Scales == 1 .. MaxScale

\* A buffer whose odd pixels are red
PatternBuf(w, h) ==
    [ClearBuf(w, h) EXCEPT !.buf = [i \in 0 .. w * h - 1 |-> IF i % 2 = 1 THEN Red ELSE Transparent]]

PixelInit ==
    /\ ParseIdle
    /\ CanvasInit
    /\ InputIdle
    /\ pix \in {ClearBuf(BufWidth, BufHeight), PatternBuf(BufWidth, BufHeight)}
    /\ \E x \in Coords, y \in Coords, scale \in Scales, color \in {White, Red} :
          call = [op |-> "set_scaled_pixel", x |-> x, y |-> y, scale |-> scale,
                  color |-> color, before |-> pix.buf, done |-> FALSE]

ScaledPixel ==
    /\ call.op = "set_scaled_pixel"
    /\ ~call.done
    /\ pix' = SetScaledPixel(pix, call.x, call.y, call.scale, call.color)
    /\ call' = [call EXCEPT !.done = TRUE]
    /\ UNCHANGED <<parseVars, canvasVars, inputVars>>

PixelNext == ScaledPixel

SpecPixel == PixelInit /\ [][PixelNext]_vars

\* C6: set_scaled_pixel(x, y, scale, color) sets exactly the pixels of the block
\* [x*scale, x*scale+scale) x [y*scale, y*scale+scale) that lie inside the
\* buffer to color, leaves every other pixel as it was, and never indexes
\* outside the buffer, for negative x and y too.
C6_ScaledPixelClips ==
    (call.op = "set_scaled_pixel" /\ call.done) =>
        /\ ~pix.fault
        /\ DOMAIN pix.buf = 0 .. pix.width * pix.height - 1
        /\ \A px \in 0 .. pix.width - 1, py \in 0 .. pix.height - 1 :
              pix.buf[px + py * pix.width] =
                  IF /\ call.x * call.scale <= px /\ px < call.x * call.scale + call.scale
                     /\ call.y * call.scale <= py /\ py < call.y * call.scale + call.scale
                  THEN call.color
                  ELSE call.before[px + py * pix.width]

\* C6's case: a block over the bottom right corner of a patterned buffer, part
\* written and part dropped
C6_Witness ==
    /\ call.op = "set_scaled_pixel" /\ call.done
    /\ call.x * call.scale < pix.width
    /\ call.x * call.scale + call.scale > pix.width
    /\ call.y * call.scale < pix.height
    /\ call.y * call.scale + call.scale > pix.height
    /\ call.before # ClearBuf(BufWidth, BufHeight).buf
    /\ pix.buf # call.before

(***************************************************************************)
(* CharData::draw on its own: one glyph, one origin, one scale.  The       *)
(* glyphs are those main inserts (main.rs 94-169) and two shapes with      *)
(* rows of one and two bytes.                                              *)
(***************************************************************************)
DoubleSharp == Glyph(5, 5, 1, 0, <<216, 216, 32, 216, 216>>)
DoubleFlat == Glyph(5, 7, 1, 0, <<160, 160, 160, 248, 168, 168, 240>>)
HalfSharp == Glyph(3, 7, 2, -1, <<64, 96, 192, 64, 96, 192, 64>>)
HalfFlat == Glyph(3, 7, 2, 0, <<32, 32, 32, 224, 160, 160, 96>>)
ThreeHalvesSharp == Glyph(5, 9, 1, -1, <<8, 40, 184, 232, 168, 184, 232, 160, 128>>)
ThreeHalvesFlat == Glyph(5, 7, 1, 0, <<32, 32, 32, 248, 168, 168, 112>>)
Wide == Glyph(9, 2, 1, -1, <<128, 128, 1, 192>>)
Byte == Glyph(8, 1, 0, 0, <<141>>)

GlyphSet == {DoubleSharp, DoubleFlat, HalfSharp, HalfFlat, ThreeHalvesSharp,
             ThreeHalvesFlat, Wide, Byte}
GlyphOrigins == {<<0, 5>>, <<-3, 7>>, <<3, 2>>, <<1, 9>>, <<-1, -1>>, <<-15, 3>>}

GlyphInit ==
    /\ ParseIdle
    /\ CanvasInit
    /\ InputIdle
    /\ pix = ClearBuf(BufWidth, BufHeight)
    /\ \E g \in GlyphSet, p \in GlyphOrigins, scale \in Scales :
          call = [op |-> "CharData::draw", glyph |-> g, at |-> p, scale |-> scale,
                  color |-> White, done |-> FALSE, painted |-> {}, panic |-> FALSE]

GlyphDraw ==
    /\ call.op = "CharData::draw"
    /\ ~call.done
    /\ LET d == CharDataDraw(call.glyph, pix, call.at, call.color, call.scale) IN
       /\ pix' = d.pix
       /\ call' = [call EXCEPT !.done = TRUE, !.painted = d.painted,
                               !.panic = d.panic \/ d.pix.fault]
    /\ UNCHANGED <<parseVars, canvasVars, inputVars>>

GlyphNext == GlyphDraw

SpecGlyph == GlyphInit /\ [][GlyphNext]_vars

Abs(a) == IF a < 0 THEN -a ELSE a

\* a / b as the claim's formulas mean it: the quotient whose remainder is zero
\* or has the sign of a
Quotient(a, b) ==
    CHOOSE q \in -Abs(a) .. Abs(a) :
        \E r \in -(b - 1) .. (b - 1) : a = q * b + r /\ (r = 0 \/ (r > 0) = (a > 0))

\* Bit k (0 the lowest) of a byte
BitOf(byte, k) == (byte \div (2 ^ k)) % 2

\* C7: CharData::draw paints the logical pixel
\* (origin.x/scale + c + xo, origin.y/scale + y - height - yo) if and only if bit
\* 7 - c mod 8 of byte c div 8 of row y is set, for every row y and every column
\* c < 8*ceil(width/8); it paints no other pixel, and each painted logical pixel
\* is a scale x scale block of the buffer.
C7_GlyphBitOrder ==
    (call.op = "CharData::draw" /\ call.done) =>
        LET g == call.glyph
            dw == (g.width + 7) \div 8
            ox == Quotient(call.at[1], call.scale)
            oy == Quotient(call.at[2], call.scale)
            want == {<<ox + c + g.xo, oy + y - g.height - g.yo>> :
                        <<y, c>> \in {yc \in (0 .. g.height - 1) \X (0 .. 8 * dw - 1) :
                            BitOf(g.data[yc[1] * dw + (yc[2] \div 8) + 1], 7 - (yc[2] % 8)) = 1}}
        IN  /\ ~call.panic
            /\ call.painted = want
            /\ \A px \in 0 .. pix.width - 1, py \in 0 .. pix.height - 1 :
                  pix.buf[px + py * pix.width] =
                      IF \E q \in want :
                            /\ q[1] * call.scale <= px /\ px < q[1] * call.scale + call.scale
                            /\ q[2] * call.scale <= py /\ py < q[2] * call.scale + call.scale
                      THEN call.color
                      ELSE Transparent

\* C7's case: a two-byte row whose second byte has bit 7 set (column 8), drawn
\* from a negative origin at scale 2, with pixels landing in the buffer
C7_Witness ==
    /\ call.op = "CharData::draw" /\ call.done
    /\ call.glyph = Wide
    /\ call.at = <<-15, 3>>
    /\ call.scale = 2
    /\ <<2, 0>> \in call.painted
    /\ pix.buf[4] = White

(***************************************************************************)
(* Font::len and Font::draw on fonts with ligatures: the glyph and         *)
(* ligature maps are filled by the caller as main does (main.rs 94-169).   *)
(***************************************************************************)
LetterC == 67
SharpSign == 9839
HalfSharpSign == 119090
Alphabet == {LetterC, SharpSign, HalfSharpSign}

AllChars ==
    (LetterC :> Byte) @@ (SharpSign :> DoubleSharp) @@ (HalfSharpSign :> HalfSharp)

\* The function m restricted to the keys in ks
Restrict(m, ks) == [k \in ks |-> m[k]]

AllLigatures ==
    (<<HalfSharpSign, SharpSign>> :> ThreeHalvesSharp)
        @@ (<<SharpSign, SharpSign>> :> DoubleSharp)
        @@ (<<SharpSign, HalfSharpSign>> :> ThreeHalvesFlat)

Fonts ==
    {[width |-> CellWidth, height |-> CellHeight, chars |-> Restrict(AllChars, cs),
      ligatures |-> Restrict(AllLigatures, ls)] :
        cs \in {Alphabet, {LetterC, HalfSharpSign}, {}}, ls \in SUBSET (DOMAIN AllLigatures)}

Texts == UNION {[1 .. n -> Alphabet] : n \in 0 .. MaxText}
TextOrigins == {<<0, 13>>, <<-7, 3>>}

TextInit ==
    /\ ParseIdle
    /\ CanvasInit
    /\ InputIdle
    /\ pix = ClearBuf(BufWidth, BufHeight)
    /\ \E font \in Fonts, s \in Texts, p \in TextOrigins, scale \in 1 .. 2 :
          call = TextCall(font, s, p, White, scale, pix.buf)

\* Font::len on the text
Measure ==
    /\ call.op = "Font::draw"
    /\ ~call.measured
    /\ call' = [call EXCEPT !.measured = TRUE, !.count = FontLen(call.font, call.text)]
    /\ UNCHANGED <<pix, parseVars, canvasVars, inputVars>>

\* Font::draw on the text
DrawText ==
    /\ call.op = "Font::draw"
    /\ ~call.drawn
    /\ LET d == FontDraw(call.font, pix, call.text, call.at, call.color, call.scale) IN
       /\ pix' = d.pix
       /\ call' = Drawn(call, d)
    /\ UNCHANGED <<parseVars, canvasVars, inputVars>>

TextNext == Measure \/ DrawText

SpecText == TextInit /\ [][TextNext]_vars

\* (s[i], s[i+1]) is a key of the ligature map
PairAt(font, s, i) == i < Len(s) /\ <<s[i], s[i + 1]>> \in DOMAIN font.ligatures

\* The positions of s where a cell starts under greedy left-to-right matching:
\* position 1, and the position after each cell (two further on after a
\* ligature pair, one otherwise)
CellStarts(font, s) ==
    CHOOSE S \in SUBSET (1 .. Len(s)) :
        \A i \in 1 .. Len(s) :
            i \in S <=> \/ i = 1
                        \/ \E j \in S : j < i /\ i = j + (IF PairAt(font, s, j) THEN 2 ELSE 1)

\* C8: Font::len(text) equals the count Font::draw(text) returns, and both count
\* one cell per greedy cell start: a ligature pair is one cell and its second
\* codepoint starts no cell.
C8_MeasureAgreesWithDraw ==
    call.op = "Font::draw" =>
        LET starts == CellStarts(call.font, call.text) IN
        /\ call.measured => call.count = Cardinality(starts)
        /\ call.drawn =>
              /\ ~call.panic
              /\ call.len = Cardinality(starts)
              /\ {call.cells[k].first : k \in 1 .. Len(call.cells)} = starts
        /\ (call.measured /\ call.drawn) => call.count = call.len

\* C8's case: a matched pair whose second codepoint is also the first of another
\* ligature key, measured and drawn
C8_Witness ==
    /\ call.op = "Font::draw" /\ call.measured /\ call.drawn
    /\ call.text = <<HalfSharpSign, SharpSign, SharpSign>>
    /\ DOMAIN call.font.ligatures = DOMAIN AllLigatures
    /\ call.len = 2

\* C9: Font::draw rasterizes cell k (from 0) at x = origin.x + k*cellWidth*scale
\* and the origin's y; a cell with neither a ligature match nor a glyph paints
\* nothing, still counts and advances, and is no error.
C9_CellPositions ==
    (call.op = "Font::draw" /\ call.drawn) =>
        /\ ~call.panic
        /\ call.len = Len(call.cells)
        /\ \A k \in 1 .. Len(call.cells) :
              LET cell == call.cells[k] IN
              /\ cell.at = <<call.at[1] + (k - 1) * call.font.width * call.scale, call.at[2]>>
              /\ (~PairAt(call.font, call.text, cell.first)
                    /\ call.text[cell.first] \notin DOMAIN call.font.chars)
                    => cell.painted = {}
        /\ (call.font.ligatures = <<>> /\ call.font.chars = <<>>) =>
              /\ pix.buf = call.before
              /\ call.len = Len(call.text)

\* C9's case: a codepoint with no glyph between two that have one, at scale 2
C9_Witness ==
    /\ call.op = "Font::draw" /\ call.drawn
    /\ call.text = <<LetterC, SharpSign, LetterC>>
    /\ DOMAIN call.font.chars = {LetterC, HalfSharpSign}
    /\ call.font.ligatures = <<>>
    /\ call.scale = 2
    /\ call.len = 3
    /\ call.cells[2].painted = {}
    /\ call.cells[3].painted # {}

(***************************************************************************)
(* Canvas regions (widget.rs 126-186).  A region call runs a closure       *)
(* between its entry and with_rect's restore, so it is an Enter action and *)
(* a Leave action with the body's own actions between them; frames holds   *)
(* what each with_rect under way has pushed.                               *)
(***************************************************************************)
RegionSizes == {0, 3}
Directions == {"Horizontal", "Vertical"}

\* invert (main.rs 41-43)
Invert(c) == <<255 - c[1], 255 - c[2], 255 - c[3], 255 - c[4]>>

\* lines 160-181: the rectangle cut carves (the same in both directions)
CutCarved(r, dir, w, h) == Rect(r.x, r.y, w, h)

\* a cut that reduces only the extent along the direction
CutRemainderOneAxis(r, dir, w, h) ==
    IF dir = "Horizontal"
    THEN Rect(r.x + w, r.y, r.width - w, r.height)
    ELSE Rect(r.x, r.y + h, r.width, r.height - h)

\* lines 160-183: what cut leaves in self.rect before it runs the body
CutRemainder(r, dir, w, h) ==
    IF dir = "Horizontal"
    THEN Rect(r.x + w, r.y, r.width - w, r.height - h)
    ELSE Rect(r.x, r.y + h, r.width - w, r.height - h)

\* lines 148-153: the rectangle cut_top carves
CutTopCarved(r, h) == Rect(r.x, r.y, r.width, h)

\* a cut_top that also takes the height off the width
CutTopRemainderNarrowed(r, h) == Rect(r.x, r.y + h, r.width - h, r.height - h)

\* lines 154-155: what cut_top leaves in self.rect
CutTopRemainder(r, h) == Rect(r.x, r.y + h, r.width, r.height - h)

\* a center that rounds its halves down
CenterRectFloor(r, w, h) ==
    Rect(r.x + (r.width \div 2) - (w \div 2),
         r.y + (r.height \div 2) - (h \div 2), w, h)

\* lines 138-143: the rectangle center hands to with_rect
CenterRect(r, w, h) ==
    Rect(r.x + TruncDiv(r.width, 2) - TruncDiv(w, 2),
         r.y + TruncDiv(r.height, 2) - TruncDiv(h, 2), w, h)

\* a with_rect that forgets self.rect = pushed_rect
RestoreRectSkipped(frame, cur) == cur

\* line 134: self.rect = pushed_rect
RestoreRect(frame, cur) == frame.pushed_rect

\* a with_rect that forgets self.visuals = pushed_vis
RestoreVisualsSkipped(frame, cur) == cur

\* line 133: self.visuals = pushed_vis
RestoreVisuals(frame, cur) == frame.pushed_vis

\* The enclosing frames with one more region call counted in the innermost body
Counted(fs) ==
    IF fs = <<>> THEN fs
    ELSE [fs EXCEPT ![Len(fs)] = [@ EXCEPT !.inner = @ + 1]]

\* Region calls made so far in this frame
CallsMade == IF call.op = "none" THEN 0 ELSE call.calls

\* with_rect, lines 127-130: push self.rect (as the caller left it) and the
\* visuals, make the carved rectangle current, enter the body
WithRect(op, w, h, left, carved) ==
    /\ Len(frames) < MaxDepth
    /\ CallsMade < MaxCalls
    /\ frames' = Append(Counted(frames),
                        [op |-> op, w |-> w, h |-> h, dir |-> visuals.dir, entry |-> rect,
                         entry_visuals |-> visuals,
                         pushed_rect |-> left, pushed_vis |-> visuals, body |-> carved,
                         inner |-> 0])
    /\ rect' = carved
    /\ call' = [op |-> "enter", calls |-> CallsMade + 1]
    /\ UNCHANGED <<visuals, pix, parseVars, inputVars>>

\* Canvas::cut up to the body
CutEnter ==
    \E w \in RegionSizes, h \in RegionSizes :
        WithRect("cut", w, h, CutRemainder(rect, visuals.dir, w, h),
                 CutCarved(rect, visuals.dir, w, h))

\* Canvas::cut_top up to the body
CutTopEnter ==
    \E h \in RegionSizes :
        WithRect("cut_top", rect.width, h, CutTopRemainder(rect, h), CutTopCarved(rect, h))

\* Canvas::center up to the body
CenterEnter ==
    \E w \in RegionSizes, h \in RegionSizes :
        WithRect("center", w, h, rect, CenterRect(rect, w, h))

\* A body assigns canvas.visuals.dir (explorer.rs 31, 34)
SetDir ==
    /\ \E d \in Directions : d # visuals.dir /\ visuals' = [visuals EXCEPT !.dir = d]
    /\ UNCHANGED <<rect, frames, call, pix, parseVars, inputVars>>

\* A body assigns canvas.visuals.color = invert(..) (widget.rs 72, 74)
SetColor ==
    /\ visuals' = [visuals EXCEPT !.color = Invert(@)]
    /\ UNCHANGED <<rect, frames, call, pix, parseVars, inputVars>>

\* A body restyles: it assigns canvas.visuals.color (widget.rs 72) and
\* canvas.visuals.text_size (a pub field of Visuals, widget.rs 40)
Restyle ==
    /\ visuals' = [visuals EXCEPT !.color = Invert(@),
                                  !.text_size = IF @ = TextSize THEN 1 ELSE TextSize]
    /\ UNCHANGED <<rect, frames, call, pix, parseVars, inputVars>>

\* with_rect, lines 133-134: the body has returned; restore the visuals and the
\* rectangle.  call records the region call that returned.
Leave ==
    /\ frames # <<>>
    /\ LET f == frames[Len(frames)] IN
       /\ rect' = RestoreRect(f, rect)
       /\ visuals' = RestoreVisuals(f, visuals)
       /\ frames' = SubSeq(frames, 1, Len(frames) - 1)
       /\ call' = [op |-> f.op, w |-> f.w, h |-> f.h, dir |-> f.dir, entry |-> f.entry,
                   entry_visuals |-> f.entry_visuals, body |-> f.body, last |-> rect, last_visuals |-> visuals,
                   exit |-> rect', exit_visuals |-> visuals', inner |-> f.inner,
                   depth |-> Len(frames), calls |-> CallsMade]
    /\ UNCHANGED <<pix, parseVars, inputVars>>

CanvasSpecInit ==
    /\ ParseIdle
    /\ pix = ClearBuf(BufWidth, BufHeight)
    /\ call = NoCall
    /\ CanvasInit
    /\ InputIdle

CanvasNext == CutEnter \/ CutTopEnter \/ CenterEnter \/ SetDir \/ SetColor \/ Leave

SpecCanvas == CanvasSpecInit /\ [][CanvasNext]_vars

\* C10 as stated: after cut(w, h) has run its body and with_rect has restored the
\* parent rect, the rect is what it was before the call.
C10_CutLeavesRectAsBefore ==
    call.op = "cut" => call.exit = call.entry

\* C10 amended: after cut(w, h) has run its body and with_rect has restored the
\* parent rect, the rect is the remainder cut computed from the rect before the
\* call (origin advanced by w when Horizontal, by h when Vertical; width and
\* height reduced by w and h), whatever the body did and however deeply it
\* nested region calls; it is the rect before the call only when w = h = 0.
C10_CutLeavesRemainder ==
    call.op = "cut" =>
        /\ call.exit.x = call.entry.x + (IF call.dir = "Horizontal" THEN call.w ELSE 0)
        /\ call.exit.y = call.entry.y + (IF call.dir = "Vertical" THEN call.h ELSE 0)
        /\ call.exit.width = call.entry.width - call.w
        /\ call.exit.height = call.entry.height - call.h
        /\ (call.exit = call.entry) <=> (call.w = 0 /\ call.h = 0)

\* C10's case: a cut whose body made a region call of its own (which consumed
\* part of the carved rectangle) and changed the direction, after its return
C10_Witness ==
    /\ call.op = "cut"
    /\ call.w = 3 /\ call.h = 0
    /\ call.inner > 0
    /\ call.last # call.body
    /\ call.last_visuals.dir # call.dir
    /\ call.depth = 1

(***************************************************************************)
(* Region calls whose bodies restyle the canvas: direction, colour and     *)
(* text scale are assigned inside bodies and between region calls.         *)
(***************************************************************************)
RegionNext == CutEnter \/ CutTopEnter \/ CenterEnter \/ SetDir \/ Restyle \/ Leave

SpecRegion == CanvasSpecInit /\ [][RegionNext]_vars

\* C11: every cut, cut_top and center is a strict push/pop of (Rect, Visuals):
\* at its return the visuals are those in force at the call, whatever the body
\* assigned to direction, colour or text scale and however deeply it nested
\* region calls; the rect is the value the operation left for the parent before
\* it ran the body (the remainder for cut and cut_top, the rect of the call for
\* center), not the carved rectangle the body ended with; and exactly the
\* call's own frame has been popped.
C11_StrictPushPop ==
    call.op \in {"cut", "cut_top", "center"} =>
        /\ call.exit_visuals = call.entry_visuals
        /\ call.exit =
              CASE call.op = "cut" ->
                     Rect(call.entry.x + (IF call.dir = "Horizontal" THEN call.w ELSE 0),
                          call.entry.y + (IF call.dir = "Vertical" THEN call.h ELSE 0),
                          call.entry.width - call.w, call.entry.height - call.h)
                [] call.op = "cut_top" ->
                     Rect(call.entry.x, call.entry.y + call.h,
                          call.entry.width, call.entry.height - call.h)
                [] call.op = "center" -> call.entry
        /\ Len(frames) = call.depth - 1

\* C11's case: a cut_top whose body changed direction, colour and text scale
\* and cut a region of its own out of the carved rectangle, after its return
C11_Witness ==
    /\ call.op = "cut_top" /\ call.h = 3
    /\ call.inner > 0
    /\ call.last # call.body /\ call.last # call.exit
    /\ call.last_visuals.dir # call.entry_visuals.dir
    /\ call.last_visuals.color # call.entry_visuals.color
    /\ call.last_visuals.text_size # call.entry_visuals.text_size

\* C12: cut(width, height, body) with current rect (x, y, W, H) runs body
\* against (x, y, width, height) and leaves the parent, while the body runs and
\* after it has returned, with (x + width, y, W - width, H - height) when the
\* direction is Horizontal and (x, y + height, W - width, H - height) when it is
\* Vertical: the origin moves on one axis, both extents are reduced.
C12_CutGeometry ==
    /\ (call.op = "enter" /\ frames[Len(frames)].op = "cut") =>
          LET f == frames[Len(frames)] IN
          /\ rect = Rect(f.entry.x, f.entry.y, f.w, f.h)
          /\ f.pushed_rect =
                IF f.dir = "Horizontal"
                THEN Rect(f.entry.x + f.w, f.entry.y, f.entry.width - f.w, f.entry.height - f.h)
                ELSE Rect(f.entry.x, f.entry.y + f.h, f.entry.width - f.w, f.entry.height - f.h)
    /\ call.op = "cut" =>
          /\ call.body = Rect(call.entry.x, call.entry.y, call.w, call.h)
          /\ call.exit =
                IF call.dir = "Horizontal"
                THEN Rect(call.entry.x + call.w, call.entry.y,
                          call.entry.width - call.w, call.entry.height - call.h)
                ELSE Rect(call.entry.x, call.entry.y + call.h,
                          call.entry.width - call.w, call.entry.height - call.h)

\* C12's case: a Horizontal cut of 3 x 3 out of the whole surface, returned:
\* x moved, y did not, and the height shrank although the cut was Horizontal
C12_Witness ==
    /\ call.op = "cut" /\ call.dir = "Horizontal"
    /\ call.w = 3 /\ call.h = 3
    /\ call.entry = FrameRect
    /\ call.exit = Rect(3, 0, BufWidth - 3, BufHeight - 3)
    /\ rect = call.exit

(***************************************************************************)
(* Canvas::center over rects of a window of 100 x 100, of the model's      *)
(* surface and of a rect two cuts have driven negative, with sizes of both *)
(* signs and parities; the body cuts from the centred rect.                *)
(***************************************************************************)
CenterRects == {Rect(0, 0, 100, 100), FrameRect, Rect(0, 6, -1, -2)}
CenterSizes == {-3, 0, 3, 50}

CenterInit ==
    /\ ParseIdle
    /\ pix = ClearBuf(BufWidth, BufHeight)
    /\ call = NoCall
    /\ rect \in CenterRects
    /\ visuals = FrameVisuals
    /\ frames = <<>>
    /\ InputIdle

\* Canvas::center up to the body, over CenterSizes
CenterOver ==
    \E w \in CenterSizes, h \in CenterSizes :
        WithRect("center", w, h, rect, CenterRect(rect, w, h))

CenterNext == CenterOver \/ CutEnter \/ Leave

SpecCenter == CenterInit /\ [][CenterNext]_vars

\* C13: center(width, height, body) with current rect (x, y, W, H) runs body
\* against (x + W/2 - width/2, y + H/2 - height/2, width, height), the divisions
\* truncating towards zero, and leaves the parent rect as it was before the call;
\* over (0, 0, 100, 100) with width = height = 50 the body's rect is
\* (25, 25, 50, 50).
C13_CenterGeometry ==
    call.op = "center" =>
        /\ call.body = Rect(call.entry.x + Quotient(call.entry.width, 2) - Quotient(call.w, 2),
                            call.entry.y + Quotient(call.entry.height, 2) - Quotient(call.h, 2),
                            call.w, call.h)
        /\ call.exit = call.entry
        /\ (call.entry = Rect(0, 0, 100, 100) /\ call.w = 50 /\ call.h = 50)
              => call.body = Rect(25, 25, 50, 50)

\* C13's case: center(50, 50) over (0, 0, 100, 100) whose body cut from the
\* centred rect, after its return
C13_Witness ==
    /\ call.op = "center"
    /\ call.entry = Rect(0, 0, 100, 100)
    /\ call.w = 50 /\ call.h = 50
    /\ call.body = Rect(25, 25, 50, 50)
    /\ call.inner > 0 /\ call.last # call.body
    /\ rect = Rect(0, 0, 100, 100)

(***************************************************************************)
(* Canvas::clear and Canvas::fill (widget.rs 188-197).  fill slices the    *)
(* flat buffer once per row of the rect; the slice bounds are i32 values   *)
(* cast to usize, so a negative bound wraps to the top of the usize range. *)
(***************************************************************************)

\* v as usize: a negative i32 becomes 2^64 + v, kept as the pair (wrapped, v)
AsUsize(v) == [wrapped |-> v < 0, low |-> v]

\* a > b for two values cast by AsUsize
UsizeGreater(a, b) ==
    \/ a.wrapped /\ ~b.wrapped
    \/ a.wrapped = b.wrapped /\ a.low > b.low

\* buf[start as usize .. end as usize].fill(color), line 195: the slice index
\* panics when start > end or end > buf.len()
SliceFill(pb, start, end, color) ==
    LET s == AsUsize(start)
        e == AsUsize(end)
        n == AsUsize(pb.width * pb.height)
    IN  IF UsizeGreater(s, e) \/ UsizeGreater(e, n)
        THEN [pb EXCEPT !.fault = TRUE]
        ELSE [pb EXCEPT !.buf = [i \in DOMAIN pb.buf |->
                                    IF start <= i /\ i < end THEN color ELSE pb.buf[i]]]

\* a row start that strides by the rect's width
RowStartByRectWidth(pb, r, y) == y * r.width + r.x

\* line 193: start = y * self.pix.width + self.rect.x
RowStart(pb, r, y) == y * pb.width + r.x

\* lines 193-195: one turn of fill's loop
FillRow(pb, r, y, color) ==
    LET start == RowStart(pb, r, y)
        end == start + r.width
    IN  SliceFill(pb, start, end, color)

\* line 192: for y in rect.y .. rect.y + rect.height, until a panic
RECURSIVE FillRowsFrom(_, _, _, _)
FillRowsFrom(pb, r, y, color) ==
    IF y >= r.y + r.height \/ pb.fault THEN pb
    ELSE FillRowsFrom(FillRow(pb, r, y, color), r, y + 1, color)

\* Canvas::fill
CanvasFill(pb, r, color) == FillRowsFrom(pb, r, r.y, color)

\* Canvas::clear
CanvasClear(pb) == [pb EXCEPT !.buf = [i \in DOMAIN pb.buf |-> Transparent]]

\* The buffer of the 4 x 4 scenario
ScenarioBuf == ClearBuf(4, 4)

\* The rects fill is called with: inside the buffer, empty, left negative by
\* two cuts, and partly or wholly outside the buffer
FillRects ==
    {Rect(0, 0, 2, 2), Rect(1, 1, 3, 2), Rect(3, 0, 1, 4), Rect(0, 0, 4, 4),
     Rect(0, 0, 0, 3), Rect(0, 0, 3, 0), Rect(4, 3, 0, 1),
     Rect(0, 6, -1, -2), Rect(6, 0, -1, 4), Rect(0, 0, 3, -2), Rect(0, 0, -1, 2),
     Rect(3, 0, 3, 3), Rect(0, 3, 3, 3), Rect(-1, 0, 3, 2), Rect(6, 6, 3, 3)}

FillInit ==
    /\ ParseIdle
    /\ pix \in {ClearBuf(BufWidth, BufHeight), PatternBuf(BufWidth, BufHeight), ScenarioBuf}
    /\ call = NoCall
    /\ rect \in FillRects
    /\ visuals = FrameVisuals
    /\ frames = <<>>
    /\ InputIdle

\* canvas.fill(color) with the current rect; a panic ends the program
Fill ==
    /\ ~pix.fault
    /\ \E color \in {Red, White} :
          /\ pix' = CanvasFill(pix, rect, color)
          /\ call' = [op |-> "fill", rect |-> rect, color |-> color, before |-> pix.buf,
                      panic |-> pix'.fault]
    /\ UNCHANGED <<parseVars, canvasVars, inputVars>>

\* canvas.clear()
Clear ==
    /\ ~pix.fault
    /\ pix' = CanvasClear(pix)
    /\ call' = [op |-> "clear"]
    /\ UNCHANGED <<parseVars, canvasVars, inputVars>>

FillNext == Fill \/ Clear

SpecFill == FillInit /\ [][FillNext]_vars

\* The pixel (px, py) lies in the rect r
InRect(r, px, py) ==
    r.x <= px /\ px < r.x + r.width /\ r.y <= py /\ py < r.y + r.height

\* The rect r has no pixel
Degenerate(r) == r.width <= 0 \/ r.height <= 0

\* The rect r has a pixel and lies inside the buffer pb
InsideBuffer(r, pb) ==
    /\ ~Degenerate(r)
    /\ r.x >= 0 /\ r.y >= 0
    /\ r.x + r.width <= pb.width /\ r.y + r.height <= pb.height

\* C14: fill(color) with a degenerate rect (width <= 0 or height <= 0, negative
\* values included) or a rect partly or wholly outside the buffer completes
\* without a fault and modifies no pixel outside the rect (none at all when the
\* rect is degenerate).
C14_FillOutsideIsNoOp ==
    (call.op = "fill" /\ ~InsideBuffer(call.rect, pix)) =>
        /\ ~call.panic
        /\ \A px \in 0 .. pix.width - 1, py \in 0 .. pix.height - 1 :
              ~InRect(call.rect, px, py)
                  => pix.buf[py * pix.width + px] = call.before[py * pix.width + px]

\* C15: for a rect inside the buffer, fill(color) sets exactly the pixels
\* (px, py) with x <= px < x + width and y <= py < y + height to color and
\* leaves every other pixel as it was; after clear(), fill of opaque red over
\* (0, 0, 2, 2) on a 4 x 4 buffer changes exactly (0,0), (1,0), (0,1), (1,1)
\* and leaves the other 12 pixels transparent black.
C15_FillInside ==
    (call.op = "fill" /\ InsideBuffer(call.rect, pix)) =>
        /\ ~call.panic
        /\ \A px \in 0 .. pix.width - 1, py \in 0 .. pix.height - 1 :
              pix.buf[py * pix.width + px] =
                  IF InRect(call.rect, px, py) THEN call.color
                  ELSE call.before[py * pix.width + px]
        /\ (pix.width = 4 /\ pix.height = 4 /\ call.rect = Rect(0, 0, 2, 2)
              /\ call.color = Red /\ call.before = ScenarioBuf.buf)
              => /\ {i \in DOMAIN pix.buf : pix.buf[i] = Red} = {0, 1, 4, 5}
                 /\ Cardinality({i \in DOMAIN pix.buf : pix.buf[i] = Transparent}) = 12

\* C15's case: the scenario, red over (0, 0, 2, 2) on the cleared 4 x 4 buffer
C15_Witness ==
    /\ call.op = "fill" /\ ~call.panic
    /\ pix.width = 4 /\ pix.height = 4
    /\ call.rect = Rect(0, 0, 2, 2) /\ call.color = Red
    /\ call.before = ScenarioBuf.buf
    /\ pix.buf[5] = Red /\ pix.buf[2] = Transparent /\ pix.buf[8] = Transparent

(***************************************************************************)
(* Hit testing (widget.rs 17-21, 111-124): a frame's events are fixed when *)
(* main builds the Canvas (main.rs 202-207); widgets ask hover and the     *)
(* button queries at the root and inside region bodies.                    *)
(***************************************************************************)

\* a contains whose right and bottom edges are inclusive
RectContainsClosed(r, x, y) ==
    x >= r.x /\ y >= r.y /\ x <= r.x + r.width /\ y <= r.y + r.height

\* Rect::contains
RectContains(r, x, y) ==
    x >= r.x /\ y >= r.y /\ x < r.x + r.width /\ y < r.y + r.height

\* Canvas::hover: cursor.is_some_and(|(x, y)| self.rect.contains(x, y))
Hover(ev, r) ==
    IF ev.cursor = NoCursor THEN FALSE ELSE RectContains(r, ev.cursor[1], ev.cursor[2])

\* Canvas::mouse_left, mouse_middle, mouse_right
MouseLeft(ev, r) == Hover(ev, r) /\ ev.mouse_left
MouseMiddle(ev, r) == Hover(ev, r) /\ ev.mouse_middle
MouseRight(ev, r) == Hover(ev, r) /\ ev.mouse_right

\* The cursors of a frame: none, or a pixel of the surface
Cursors == {NoCursor, <<0, 0>>, <<1, 1>>, <<BufWidth - 1, BufHeight - 1>>}

\* The events main can hand to a frame
EventSet ==
    {Events(l, m, r, c) : l \in BOOLEAN, m \in BOOLEAN, r \in BOOLEAN, c \in Cursors}

HoverInit ==
    /\ ParseIdle
    /\ pix = ClearBuf(BufWidth, BufHeight)
    /\ call = NoCall
    /\ CanvasInit
    /\ events \in EventSet
    /\ selected = MainTabs[1]

\* A widget asks hover() and the three button queries with the current rect
HitTest ==
    /\ call.op # "hit"
    /\ call' = [op |-> "hit", hover |-> Hover(events, rect),
                left |-> MouseLeft(events, rect), middle |-> MouseMiddle(events, rect),
                right |-> MouseRight(events, rect), calls |-> CallsMade]
    /\ UNCHANGED <<pix, parseVars, canvasVars, inputVars>>

HoverNext == CutEnter \/ CenterEnter \/ Leave \/ HitTest

SpecHover == HoverInit /\ [][HoverNext]_vars

\* C16: hover() is true iff the frame has a cursor (cx, cy) with
\* x <= cx < x + width and y <= cy < y + height for the rect current at the call
\* (the innermost one inside a nested body, whatever the enclosing rects
\* contain); it is false without a cursor and for every rect with width <= 0 or
\* height <= 0; mouse_left, mouse_middle and mouse_right are hover() AND the
\* matching button flag.
C16_HitTest ==
    call.op = "hit" =>
        /\ call.hover <=>
              \E cx \in -1 .. BufWidth, cy \in -1 .. BufHeight :
                  /\ events.cursor = <<cx, cy>>
                  /\ rect.x <= cx /\ cx < rect.x + rect.width
                  /\ rect.y <= cy /\ cy < rect.y + rect.height
        /\ events.cursor = <<>> => ~call.hover
        /\ (rect.width <= 0 \/ rect.height <= 0) => ~call.hover
        /\ call.left = (call.hover /\ events.mouse_left)
        /\ call.middle = (call.hover /\ events.mouse_middle)
        /\ call.right = (call.hover /\ events.mouse_right)

\* C16's case: inside a body nested in a body, the innermost rect holds the
\* cursor with the left button held and the right one not, while the rect of
\* the enclosing body does not hold the cursor
C16_Witness ==
    /\ call.op = "hit"
    /\ Len(frames) = 2
    /\ call.hover /\ call.left /\ ~call.right
    /\ events.cursor = <<1, 1>>
    /\ frames[2].entry.height = 0

(***************************************************************************)
(* Canvas::text and Text::draw (widget.rs 198-200, 222-239), the font      *)
(* metrics of Visuals (101-108).  Visuals.font is a reference to the font  *)
(* main parsed; the operators take it as an argument.                      *)
(***************************************************************************)

\* Visuals::font_width, Visuals::font_height
FontWidth(font, vis) == font.width * vis.text_size
FontHeight(font, vis) == font.height * vis.text_size

\* an advance of the origin that ignores the direction
TextRemainderAlongX(r, vis, w, h) == CutRemainder(r, "Horizontal", w, h)

\* what Text::draw's cut leaves in the region's rect (widget.rs 234-238)
TextRemainder(r, vis, w, h) == CutRemainder(r, vis.dir, w, h)

\* Text::draw on the canvas (pb, r, vis): Font::draw at the baseline, then
\* cut(len * width * scale, height * scale, |_| {}), whose with_rect restores the
\* remainder.  at is the baseline, carved the rectangle the cut carved.
TextDraw(font, pb, r, vis, s) ==
    LET scale == vis.text_size
        at == <<r.x, r.y + font.height * scale>>
        d == FontDraw(font, pb, s, at, vis.color, scale)
        w == d.len * font.width * scale
        h == font.height * scale
    IN  [pix |-> d.pix, panic |-> d.panic \/ d.pix.fault, at |-> at, len |-> d.len,
         scale |-> scale, color |-> vis.color,
         carved |-> CutCarved(r, vis.dir, w, h),
         rect |-> IF d.panic \/ d.pix.fault THEN r ELSE TextRemainder(r, vis, w, h)]

(***************************************************************************)
(* Tabs::draw and Tab::draw (widget.rs 55-98) over MainTabs, one call per  *)
(* frame; the selection is Main.tab and outlives the frame's Canvas.       *)
(***************************************************************************)

\* Tab::name (explorer.rs 16-21), as codepoints
TabName(tab) ==
    IF tab = "Explore" THEN <<69, 120, 112, 108, 111, 114, 101>>
    ELSE <<84, 117, 110, 105, 110, 103>>

\* The font of the strip: the cell of main.rs 91, glyphs for E and T
TabFont ==
    [width |-> CellWidth, height |-> CellHeight,
     chars |-> (69 :> Byte) @@ (84 :> Byte), ligatures |-> <<>>]

\* Tab::draw: center(len * font_width, font_height + text_size * 4, text(name));
\* with_rect restores rect and visuals, the pixels stay
TabDraw(font, pb, r, vis, tab) ==
    LET len == FontLen(font, TabName(tab))
        body == CenterRect(r, len * FontWidth(font, vis),
                           FontHeight(font, vis) + vis.text_size * 4)
        t == TextDraw(font, pb, body, vis, TabName(tab))
    IN  [pix |-> t.pix, panic |-> t.panic]

\* a strip that never notices a press
SelectingNever(ev, r) == FALSE

\* line 63: let selecting = canvas.mouse_left(), asked with the strip's rect
Selecting(ev, r) == MouseLeft(ev, r)

\* lines 65-78: the cut of one tab and its body
TabsStep(font, st, ev, vis, selecting, width, height, tab) ==
    LET carved == CutCarved(st.rect, vis.dir, width, height)
        pressed == MouseLeft(ev, carved)
        sel == IF pressed THEN tab ELSE st.selected
        highlighted == tab = sel /\ (~selecting \/ MouseLeft(ev, carved))
        filled == IF highlighted THEN CanvasFill(st.pix, carved, vis.color) ELSE st.pix
        drawn == IF filled.fault THEN [pix |-> filled, panic |-> TRUE]
                 ELSE TabDraw(font, filled, carved,
                              IF highlighted THEN [vis EXCEPT !.color = Invert(@)] ELSE vis,
                              tab)
    IN  [selected |-> sel, pix |-> drawn.pix,
         rect |-> CutRemainder(st.rect, vis.dir, width, height),
         tabs |-> Append(st.tabs, [tab |-> tab, rect |-> carved, pressed |-> pressed,
                                   highlighted |-> highlighted]),
         panic |-> drawn.panic]

\* line 64: for tab in tabs, until a panic
RECURSIVE TabsFrom(_, _, _, _, _, _, _, _)
TabsFrom(font, st, ev, vis, selecting, width, height, k) ==
    IF k > Len(MainTabs) \/ st.panic THEN st
    ELSE TabsFrom(font, TabsStep(font, st, ev, vis, selecting, width, height, MainTabs[k]),
                  ev, vis, selecting, width, height, k + 1)

\* Tabs::draw
TabsDraw(font, pb, r, vis, ev, sel) ==
    LET n == Len(MainTabs)
        width == IF vis.dir = "Horizontal" THEN TruncDiv(r.width, n) ELSE r.width
        height == IF vis.dir = "Horizontal" THEN r.height ELSE TruncDiv(r.height, n)
    IN  TabsFrom(font, [selected |-> sel, pix |-> pb, rect |-> r, tabs |-> <<>>,
                        panic |-> FALSE],
                 ev, vis, Selecting(ev, r), width, height, 1)

\* The strips of the model, each with the direction its parent set: widths and
\* heights that N = 2 divides and does not divide, and one strip reaching below
\* a buffer of 4 rows
Strips ==
    {<<Rect(0, 0, 5, 2), "Horizontal">>, <<Rect(0, 0, 4, 2), "Horizontal">>,
     <<Rect(0, 3, 4, 2), "Horizontal">>,
     <<Rect(0, 0, 3, 3), "Vertical">>, <<Rect(1, 0, 2, 4), "Vertical">>}

\* The events of a frame of the strip: the left button and the cursor
TabEvents ==
    {Events(l, FALSE, FALSE, c) :
        l \in BOOLEAN, c \in {NoCursor, <<0, 0>>, <<2, 1>>, <<4, 0>>, <<0, 2>>, <<2, 3>>}}

TabsInit ==
    /\ ParseIdle
    /\ pix = ClearBuf(BufWidth, BufHeight)
    /\ \E sd \in Strips :
          /\ rect = sd[1]
          /\ visuals = [FrameVisuals EXCEPT !.dir = sd[2]]
          /\ call = [op |-> "none", strip |-> sd[1], frame |-> 0, by_press |-> FALSE]
    /\ frames = <<>>
    /\ InputIdle

\* One frame: main takes the events and clears (main.rs 202-209), the strip
\* draws.  call keeps what the frame did: the selection before and after, each
\* tab's rect, whether it was pressed and whether it was rendered highlighted,
\* and whether the selection entering the frame had been set by a press.
TabsFrame ==
    /\ call.frame < MaxFrames
    /\ ~pix.fault
    /\ \E ev \in TabEvents :
          LET t == TabsDraw(TabFont, CanvasClear(pix), call.strip, visuals, ev, selected)
              anyPressed == \E k \in 1 .. Len(t.tabs) : t.tabs[k].pressed
          IN  /\ events' = ev
              /\ pix' = t.pix
              /\ selected' = t.selected
              /\ rect' = t.rect
              /\ call' = [op |-> "tabs", strip |-> call.strip, frame |-> call.frame + 1,
                          before |-> selected, after |-> t.selected, tabs |-> t.tabs,
                          panic |-> t.panic, before_by_press |-> call.by_press,
                          by_press |-> call.by_press \/ anyPressed]
    /\ UNCHANGED <<visuals, frames, parseVars>>

TabsNext == TabsFrame

SpecTabs == TabsInit /\ [][TabsNext]_vars

\* Tab k (from 0) of a strip split into N equal sub-rects along dir
SubRect(strip, dir, N, k) ==
    IF dir = "Horizontal"
    THEN Rect(strip.x + k * (strip.width \div N), strip.y, strip.width \div N, strip.height)
    ELSE Rect(strip.x, strip.y + k * (strip.height \div N), strip.width, strip.height \div N)

\* The left button is held with the cursor inside the rect r
HeldIn(r) ==
    /\ events.mouse_left
    /\ events.cursor # <<>>
    /\ r.x <= events.cursor[1] /\ events.cursor[1] < r.x + r.width
    /\ r.y <= events.cursor[2] /\ events.cursor[2] < r.y + r.height

\* The left button is held inside the sub-rect of the k-th tab (from 1) of the
\* frame's strip
HeldInTab(k) == HeldIn(SubRect(call.strip, visuals.dir, Len(MainTabs), k - 1))

\* C17: a strip is split into N equal sub-rects along the direction, tab k at
\* offset k * (extent div N); after a frame the selection is tab k if the left
\* button was held with the cursor inside tab k's sub-rect, and otherwise what
\* it was before the frame; a tab pressed in a frame is rendered highlighted in
\* that frame, and a selection set by a press stays selected and highlighted in
\* every later frame in which no tab is pressed.
C17_TabsTransition ==
    (call.op = "tabs" /\ ~call.panic) =>
        /\ \A k \in 1 .. Len(MainTabs) :
              /\ call.tabs[k].rect = SubRect(call.strip, visuals.dir, Len(MainTabs), k - 1)
              /\ HeldInTab(k) => (call.after = MainTabs[k] /\ call.tabs[k].highlighted)
        /\ (\A k \in 1 .. Len(MainTabs) : ~HeldInTab(k)) => call.after = call.before
        /\ selected = call.after
        /\ (call.before_by_press /\ \A k \in 1 .. Len(MainTabs) : ~HeldInTab(k))
              => \E k \in 1 .. Len(MainTabs) :
                    MainTabs[k] = call.before /\ call.tabs[k].highlighted

\* C18: in every frame a tab renders highlighted iff it is the selected tab and
\* either no tab's sub-rect is being clicked or its own sub-rect is the one
\* being clicked; frames with the button held inside the strip but inside no
\* tab's sub-rect are frames in which no tab is being clicked.
C18_HighlightRule ==
    (call.op = "tabs" /\ ~call.panic) =>
        \A k \in 1 .. Len(MainTabs) :
            call.tabs[k].highlighted <=>
                /\ MainTabs[k] = selected
                /\ \/ \A j \in 1 .. Len(MainTabs) : ~HeldInTab(j)
                   \/ HeldInTab(k)

\* C19: in every frame at most one tab is rendered highlighted, and when the
\* button is pressed over a tab other than the one selected before the frame,
\* the tab selected before is not highlighted, whether it comes before or after
\* the pressed tab.
C19_OneHighlight ==
    call.op = "tabs" =>
        /\ Cardinality({k \in DOMAIN call.tabs : call.tabs[k].highlighted}) <= 1
        /\ \A j \in DOMAIN call.tabs, k \in DOMAIN call.tabs :
              (call.tabs[j].pressed /\ MainTabs[j] # call.before /\ MainTabs[k] = call.before)
                  => ~call.tabs[k].highlighted

\* C19's case: the second tab was selected by a press in an earlier frame and
\* the first tab is pressed now: the first is filled, the second is not
C19_Witness ==
    /\ call.op = "tabs" /\ ~call.panic
    /\ call.frame = 2
    /\ call.strip = Rect(0, 0, 5, 2)
    /\ call.before = MainTabs[2]
    /\ call.tabs[1].pressed /\ call.tabs[1].highlighted
    /\ ~call.tabs[2].highlighted
    /\ selected = MainTabs[1]
    /\ pix.buf[0] = White /\ pix.buf[BufWidth + 1] = White
    /\ pix.buf[2] = Transparent /\ pix.buf[4] = Transparent

(***************************************************************************)
(* Sequences of canvas.text calls in one region (explorer.rs 43-58): the   *)
(* region is the whole surface or the rect a center call made current, the *)
(* direction and the text scale are those of the region.                   *)
(***************************************************************************)

LayoutFonts ==
    {[width |-> CellWidth, height |-> CellHeight, chars |-> AllChars,
      ligatures |-> AllLigatures],
     [width |-> CellWidth, height |-> CellHeight, chars |-> Restrict(AllChars, {LetterC}),
      ligatures |-> <<>>]}

LayoutTexts ==
    {<<>>, <<LetterC>>, <<LetterC, SharpSign>>, <<HalfSharpSign, SharpSign, LetterC>>,
     <<SharpSign, SharpSign>>}

\* The surface, and what center(4, 26) makes of it
LayoutRegions == {FrameRect, Rect(0, -11, 4, 26)}

LayoutInit ==
    /\ ParseIdle
    /\ pix = ClearBuf(BufWidth, BufHeight)
    /\ rect \in LayoutRegions
    /\ \E d \in Directions, size \in 1 .. 2 :
          visuals = [FrameVisuals EXCEPT !.dir = d, !.text_size = size]
    /\ \E font \in LayoutFonts :
          call = [op |-> "none", font |-> font, region |-> rect, texts |-> <<>>]
    /\ frames = <<>>
    /\ InputIdle

\* canvas.text(s): Text::new(s, text_size, color).draw(canvas).  call.texts
\* keeps, for each call of the region, the rect it found, the baseline, the
\* count the shaper returned and the rectangle its cut carved.
CanvasText ==
    /\ call.op \in {"none", "text"}
    /\ Len(call.texts) < MaxCalls
    /\ ~pix.fault
    /\ \E s \in LayoutTexts :
          LET t == TextDraw(call.font, pix, rect, visuals, s) IN
          /\ pix' = t.pix
          /\ rect' = t.rect
          /\ call' = [call EXCEPT
                        !.op = "text",
                        !.texts = Append(@, [text |-> s, entry |-> rect, at |-> t.at,
                                             len |-> t.len, scale |-> t.scale,
                                             color |-> t.color, carved |-> t.carved,
                                             before |-> pix.buf, panic |-> t.panic])]
    /\ UNCHANGED <<visuals, frames, parseVars, inputVars>>

LayoutNext == CanvasText

SpecLayout == LayoutInit /\ [][LayoutNext]_vars

\* The summed widths of the first n carved rectangles
RECURSIVE CarvedWidths(_, _)
CarvedWidths(ts, n) == IF n = 0 THEN 0 ELSE CarvedWidths(ts, n - 1) + ts[n].carved.width

\* Two rectangles share a pixel
Overlap(a, b) ==
    /\ a.x < b.x + b.width /\ b.x < a.x + a.width
    /\ a.y < b.y + b.height /\ b.y < a.y + a.height

\* C20: text(s) draws s with the current font, text scale and colour with its
\* baseline at (rect.x, rect.y + cellHeight * scale), then cuts
\* (cells * cellWidth * scale, cellHeight * scale) from the current rect, cells
\* being the shaper's count; the rectangles carved by the text calls of one
\* region are pairwise non-overlapping, the i-th (from 0) starting at
\* y + i * cellHeight * scale when Vertical and at x plus the summed widths of
\* the earlier calls when Horizontal.
C20_TextLayout ==
    call.op = "text" =>
        LET ts == call.texts
            cw == call.font.width
            ch == call.font.height
        IN  /\ \A i \in 1 .. Len(ts) :
                  /\ ~ts[i].panic
                  /\ ts[i].scale = visuals.text_size /\ ts[i].color = visuals.color
                  /\ ts[i].at = <<ts[i].entry.x, ts[i].entry.y + ch * ts[i].scale>>
                  /\ ts[i].len = Cardinality(CellStarts(call.font, ts[i].text))
                  /\ ts[i].carved = Rect(ts[i].entry.x, ts[i].entry.y,
                                         ts[i].len * cw * ts[i].scale, ch * ts[i].scale)
                  /\ visuals.dir = "Vertical" =>
                        /\ ts[i].carved.x = call.region.x
                        /\ ts[i].carved.y = call.region.y + (i - 1) * ch * ts[i].scale
                  /\ visuals.dir = "Horizontal" =>
                        /\ ts[i].carved.x = call.region.x + CarvedWidths(ts, i - 1)
                        /\ ts[i].carved.y = call.region.y
            /\ \A i \in 1 .. Len(ts), j \in 1 .. Len(ts) :
                  i < j => ~Overlap(ts[i].carved, ts[j].carved)
            /\ pix.buf = FontDraw(call.font,
                                  [pix EXCEPT !.buf = ts[Len(ts)].before],
                                  ts[Len(ts)].text, ts[Len(ts)].at,
                                  visuals.color, visuals.text_size).pix.buf

\* C20's case: two texts side by side at scale 1 in the region center made,
\* the first with a ligature (three codepoints, two cells), both painting
C20_Witness ==
    /\ call.op = "text"
    /\ Len(call.texts) = 2
    /\ visuals.dir = "Horizontal" /\ visuals.text_size = 1
    /\ call.region = Rect(0, -11, 4, 26)
    /\ call.texts[1].text = <<HalfSharpSign, SharpSign, LetterC>>
    /\ call.texts[1].len = 2
    /\ call.texts[2].text = <<LetterC>>
    /\ call.texts[2].carved = Rect(2 * CellWidth, -11, CellWidth, CellHeight)
    /\ call.texts[1].before # call.texts[2].before
    /\ rect.x = 3 * CellWidth

\* C21: cut_top(height, body) with current rect (x, y, W, H) runs body against
\* (x, y, W, height) and leaves the parent, while the body runs and after it
\* has returned, with (x, y + height, W, H - height): only y and the height of
\* the parent change, x and the width do not, whichever cut direction is
\* active.
C21_CutTopGeometry ==
    /\ (call.op = "enter" /\ frames[Len(frames)].op = "cut_top") =>
          LET f == frames[Len(frames)] IN
          /\ rect = Rect(f.entry.x, f.entry.y, f.entry.width, f.h)
          /\ f.pushed_rect = Rect(f.entry.x, f.entry.y + f.h,
                                  f.entry.width, f.entry.height - f.h)
    /\ call.op = "cut_top" =>
          /\ call.body = Rect(call.entry.x, call.entry.y, call.entry.width, call.h)
          /\ call.exit.x = call.entry.x
          /\ call.exit.width = call.entry.width
          /\ call.exit.y = call.entry.y + call.h
          /\ call.exit.height = call.entry.height - call.h

\* C21's case: a cut_top of 3 out of the whole surface made while the
\* direction is Horizontal, whose body cut from the carved rectangle, returned
C21_Witness ==
    /\ call.op = "cut_top" /\ call.h = 3
    /\ call.dir = "Horizontal"
    /\ call.entry = FrameRect
    /\ call.body = Rect(0, 0, BufWidth, 3)
    /\ call.inner > 0 /\ call.last # call.body
    /\ call.exit = Rect(0, 3, BufWidth, BufHeight - 3)
    /\ rect = call.exit

=============================================================================
